---- MODULE Spec2Model ----
(***************************************************************************)
(* A model of pyxelate: a finite 1-D or 2-D grid of binary cells (Universe) *)
(* that evolves under an ordered RuleList of window rules, the manual cell  *)
(* edits (transform), the two constructors, the Simulator, and the two      *)
(* shipped automata (Rule 110 and Conway's Life).                           *)
(*                                                                          *)
(* Arrays are 0-based functions, as in numpy: a rank-1 array of length n is *)
(* a function on 0..n-1, a rank-2 array a function on 0..h-1 of functions   *)
(* on 0..w-1.  A numpy array value is the record [shape, data].             *)
(***************************************************************************)
EXTENDS Integers, Sequences, FiniteSets, TLC

VARIABLES
    dimensions,   \* Universe._dimensions
    size,         \* Universe._size.size (the extent of every axis)
    universe,     \* Universe._universe: the cells
    rules,        \* RuleList._rules: the rules in the order they were added
    origin,       \* the cells as last built, edited or evolved outside the Simulator (generation 0)
    steps,        \* number of Universe.apply calls the Simulator has completed since then
    op,           \* the last call made: "new", "transform", "add_rule", "apply", "step"
    arg,          \* the inputs of the last call
    prev,         \* the cells just before the last call
    err           \* the outcome of the last call: NoError or the exception raised

vars == <<dimensions, size, universe, rules, origin, steps, op, arg, prev, err>>

----------------------------------------------------------------------------
(* Bounds of the model *)

MaxSize == 2        \* extents 1..MaxSize of the grids of Spec, SpecNew and SpecTransform
MaxRules == 2       \* longest RuleList of Spec
MaxLocs == 2        \* longest collection of locations given to transform in SpecTransform
MaxSize110 == 5     \* extents 1..MaxSize110 of the small grids of Spec110
MaxSteps == 4       \* Simulator steps taken in Spec110 and SpecLife
MaxNumSteps == 2    \* largest num_steps given to Simulator.step in Spec110
MaxShift == 4       \* offsets 0..MaxShift of the glider seed in SpecLife

----------------------------------------------------------------------------
(* Outcomes of a call: the exception raised, by its message *)

NoError == "none"
ErrCenter == "ValueError: Center must have the same dimensions as the window"
ErrNoDimension == "ValueError: Universes must have at least one dimension"
ErrHighDimension == "ValueError: Higher than two-dimensional universe not supported"
ErrSizeOrInitial == "ValueError: Exactly one of size or initial must be provided"
ErrInfinite == "ValueError: Infinite universes not yet supported"
ErrInitialDims == "ValueError: Initial universe must have the same number of dimensions provided"
ErrNonSquare == "ValueError: Initial universe must have the same size across all dimensions"
ErrLocation == "ValueError: Location must have the same number of dimensions as the universe"
ErrRuleDims == "ValueError: Rules must match the dimensions"
ErrMaxEmpty == "ValueError: max() arg is an empty sequence"
ErrBroadcast == "ValueError: operands could not be broadcast together"
ErrIndex == "IndexError"

Bit == {0, 1}

Min(a, b) == IF a <= b THEN a ELSE b
Max(a, b) == IF a >= b THEN a ELSE b

SetMin(S) == CHOOSE x \in S : \A y \in S : x <= y
SetMax(S) == CHOOSE x \in S : \A y \in S : x >= y

----------------------------------------------------------------------------
(* numpy arrays *)

\* np.array([c0, ..., cn-1]), an array of rank 1
Array1(t) ==
    [shape |-> <<Len(t)>>, data |-> [i \in 0..(Len(t) - 1) |-> t[i + 1]]]

\* np.array([[...], ..., [...]]), an array of rank 2 of rows of one length
Array2(t) ==
    [shape |-> <<Len(t), Len(t[1])>>,
     data |-> [i \in 0..(Len(t) - 1) |-> [j \in 0..(Len(t[1]) - 1) |-> t[i + 1][j + 1]]]]

\* len(a.shape)
Rank(a) == Len(a.shape)

\* All cells dead: np.array([0] * n), np.array([[0] * n for _ in range(n)])
Zeros(d, n) ==
    IF d = 1 THEN [i \in 0..n-1 |-> 0]
    ELSE [i \in 0..n-1 |-> [j \in 0..n-1 |-> 0]]

\* A Python slice bound x on an axis of length len: a negative bound counts
\* from the end, and both are clipped to the axis.
SliceBound(x, len) == IF x < 0 THEN Max(x + len, 0) ELSE Min(x, len)

\* Number of elements of a[start:stop] on an axis of length len
SliceLen(start, stop, len) ==
    Max(SliceBound(stop, len) - SliceBound(start, len), 0)

\* Two axis lengths broadcast together when they are equal or one of them is 1
Broadcastable(k, w) == k = w \/ k = 1 \/ w = 1

\* The length of the broadcast axis
BroadcastLen(k, w) == IF k = 1 THEN w ELSE k

\* The index into an axis of length len for position i of the broadcast axis
BroadcastIdx(i, len) == IF len = 1 THEN 0 ELSE i

----------------------------------------------------------------------------
(* Rule and RuleList *)

\* Rule.__init__: the rule, or the error raised when the centre's arity is
\* not the window's rank.  An int centre is the 1-tuple of it.
Rule(window, center, becomes) ==
    IF Len(center) # Rank(window)
    THEN [err |-> ErrCenter]
    ELSE [err |-> NoError, window |-> window, center |-> center, becomes |-> becomes]

\* RuleList.add_rule: append
add_rule(rl, rule) == Append(rl, rule)

----------------------------------------------------------------------------
(* Universe.apply *)

\* A padding that wraps around, the row's two ends being neighbours: what
\* np.pad's default mode (constant zeros) is not
Pad1Wrap(u, n, padding) ==
    [i \in 0..(n + 2 * padding - 1) |-> u[(i - padding) % n]]

\* np.pad(universe, padding) in one dimension: padding dead cells on each side
Pad1(u, n, padding) ==
    [i \in 0..(n + 2 * padding - 1) |->
        IF i >= padding /\ i < n + padding THEN u[i - padding] ELSE 0]

\* np.pad(universe, ((vp, vp), (hp, hp))) in two dimensions
Pad2(u, n, vp, hp) ==
    [i \in 0..(n + 2 * vp - 1) |->
        [j \in 0..(n + 2 * hp - 1) |->
            IF i >= vp /\ i < n + vp /\ j >= hp /\ j < n + hp
            THEN u[i - vp][j - hp] ELSE 0]]

\* Whether old[start:start + w] and a rank-1 window of length w can be
\* compared elementwise: the slice, cut short where it leaves the padded row
\* of length len, must broadcast to the window.
Fits1(len, start, window) ==
    Broadcastable(SliceLen(start, start + window.shape[1], len), window.shape[1])

\* np.all(old[start:start + w] == window), the two being broadcastable
Equal1(old, len, start, window) ==
    LET w == window.shape[1]
        s == SliceBound(start, len)
        k == SliceLen(start, start + w, len)
    IN  \A i \in 0..(BroadcastLen(k, w) - 1) :
            old[s + BroadcastIdx(i, k)] = window.data[BroadcastIdx(i, w)]

\* Where a rule looks from the cell it decides: the centre of its window and
\* the window's shape.  Rules with the same view compare their windows with
\* the same slice of old_universe.
View(rule) == [center |-> rule.center, shape |-> rule.window.shape]

\* What the rules of view v compare their windows with at padded position
\* (row, col) of old, an array of shape (rows, cols): the slice
\* old[r0:r0 + h, c0:c0 + w], with (r0, c0) = (row, col) - centre and (h, w)
\* the shape.  The slice is cut short where it leaves old, so each of its
\* axes is at most as long as the window's, and numpy broadcasts the two:
\*   fits     the slice and the window can be broadcast together (Fits2);
\*   empty    the broadcast has no element (an empty slice against an axis
\*            of length 1), and np.all of it is True whatever the window;
\*   window   otherwise, the slice stretched to the window's shape: the one
\*            window for which np.all(slice == window) is True.
Fits2(rows, cols, row, col, v) ==
    /\ Broadcastable(SliceLen(row - v.center[1], row - v.center[1] + v.shape[1], rows),
                     v.shape[1])
    /\ Broadcastable(SliceLen(col - v.center[2], col - v.center[2] + v.shape[2], cols),
                     v.shape[2])

Sight2(old, rows, cols, row, col, v) ==
    LET h == v.shape[1]
        w == v.shape[2]
        r0 == row - v.center[1]
        c0 == col - v.center[2]
        rs == SliceBound(r0, rows)
        cs == SliceBound(c0, cols)
        kh == SliceLen(r0, r0 + h, rows)
        kw == SliceLen(c0, c0 + w, cols)
        fits == Fits2(rows, cols, row, col, v)
        empty == fits /\ (BroadcastLen(kh, h) = 0 \/ BroadcastLen(kw, w) = 0)
    IN  [view |-> v, fits |-> fits, empty |-> empty,
         window |->
            IF fits /\ ~empty
            THEN [shape |-> <<h, w>>,
                  data |-> [i \in 0..h-1 |-> [j \in 0..w-1 |->
                              old[rs + BroadcastIdx(i, kh)][cs + BroadcastIdx(j, kw)]]]]
            ELSE [shape |-> <<0, 0>>, data |-> <<>>]]

\* max(rule.window.shape[axis] for rule in rules), axis counted from 1
MaxExtent(rl, axis) == SetMax({rl[k].window.shape[axis] : k \in 1..Len(rl)})

\* The last padded index the 1-D scan visits: range(padding, size + padding)
LastIndex(n, padding) == n + padding - 1

\* The last padded row the 2-D scan visits:
\* range(vertical_padding, size + vertical_padding)
LastRow(n, vertical_padding) == n + vertical_padding - 1

\* The last padded column the 2-D scan visits:
\* range(horizontal_padding, size + vertical_padding)
LastCol(n, vertical_padding, horizontal_padding) == n + vertical_padding - 1

\* The state of a scan is [err, new_universe]: the exception that ended it
\* (NoError while it runs) and the buffer new_universe as written so far.

\* The rule loop of the 1-D scan, given the rules whose comparison raises
\* (faults) and the rules that match (hits): the loop ends at the first of
\* them, a match writing new_universe[cell] before the break.
Decide1(new, cell, rl, faults, hits) ==
    LET ends == faults \cup hits
    IN  IF ends = {} THEN [err |-> NoError, new_universe |-> new]
        ELSE IF SetMin(ends) \in faults
        THEN [err |-> ErrBroadcast, new_universe |-> new]
        ELSE [err |-> NoError,
              new_universe |-> [new EXCEPT ![cell] = rl[SetMin(ends)].becomes]]

\* "for rule in rules" at padded index `index` of the 1-D grid, writing
\* new_universe[cell].  A comparison of arrays that cannot be broadcast raises
\* in numpy >= 1.25 (strict) and is False before.
ScanRules1(new, old, len, rl, index, cell, strict) ==
    Decide1(new, cell, rl,
            IF strict
            THEN {k \in 1..Len(rl) : ~Fits1(len, index - rl[k].center[1], rl[k].window)}
            ELSE {},
            {k \in 1..Len(rl) :
                /\ Fits1(len, index - rl[k].center[1], rl[k].window)
                /\ Equal1(old, len, index - rl[k].center[1], rl[k].window)})

\* "for index in range(padding, size + padding)", from `index` on, while no
\* exception has been raised
RECURSIVE ScanIndices1(_, _, _, _, _, _, _, _)
ScanIndices1(scan, old, n, padding, rl, index, last, strict) ==
    IF scan.err # NoError \/ index > last THEN scan
    ELSE ScanIndices1(ScanRules1(scan.new_universe, old, n + 2 * padding, rl,
                                 index, index - padding, strict),
                      old, n, padding, rl, index + 1, last, strict)

\* The 1-D branch of Universe.apply
apply1(u, n, rl, strict) ==
    LET padding == MaxExtent(rl, 1)
    IN  ScanIndices1([err |-> NoError, new_universe |-> u], Pad1(u, n, padding),
                     n, padding, rl, padding, LastIndex(n, padding), strict)

\* The comparisons np.all(slice == rule.window) of the rules at one position
\* of the 2-D scan, sights being what the views of the rules see there.
\* faults: the rules whose comparison raises, one of arrays that cannot be
\* broadcast, in numpy >= 1.25 (strict); before, it is False.  hits: the
\* rules whose comparison is True, because the window is the one the view
\* sees or because the comparison is empty.
Compare2(rl, sights, strict) ==
    LET misfit == {s.view : s \in {t \in sights : ~t.fits}}
        vacuous == {s.view : s \in {t \in sights : t.empty}}
        seen == {<<s.view.center, s.window>> : s \in {t \in sights : t.fits /\ ~t.empty}}
    IN  [faults |-> IF strict /\ misfit # {}
                    THEN {k \in 1..Len(rl) : View(rl[k]) \in misfit}
                    ELSE {},
         hits |-> {k \in 1..Len(rl) : <<rl[k].center, rl[k].window>> \in seen}
                    \cup (IF vacuous = {} THEN {}
                          ELSE {k \in 1..Len(rl) : View(rl[k]) \in vacuous})]

\* The rule loop of the 2-D scan at one position.  There is no break: every
\* match writes new_universe[i, j] again, so the last match stands.  The
\* write raises IndexError when column j is not one of the grid (inGrid
\* false).  The loop ends at the first rule that raises.
Decide2(new, i, j, rl, cmp, inGrid) ==
    LET raising == cmp.faults \cup (IF inGrid THEN {} ELSE cmp.hits)
        kerr == IF raising = {} THEN Len(rl) + 1 ELSE SetMin(raising)
        written == IF inGrid THEN {k \in cmp.hits : k < kerr} ELSE {}
    IN  [err |-> IF raising = {} THEN NoError
                 ELSE IF kerr \in cmp.faults THEN ErrBroadcast ELSE ErrIndex,
         new_universe |->
            IF written = {} THEN new
            ELSE [new EXCEPT ![i][j] = rl[SetMax(written)].becomes]]

\* "for rule in rules" at padded position (row, col) of the 2-D grid, views
\* being the views of the rules, writing new_universe[i, j]
ScanRules2(new, old, rows, cols, rl, views, row, col, i, j, inGrid, strict) ==
    Decide2(new, i, j, rl,
            Compare2(rl, {Sight2(old, rows, cols, row, col, v) : v \in views}, strict),
            inGrid)

\* "for col_index in range(...)" of one row, from col on, while no exception
\* has been raised
RECURSIVE ScanCols2(_, _, _, _, _, _, _, _, _, _, _)
ScanCols2(scan, old, n, vp, hp, rl, views, row, col, last, strict) ==
    IF scan.err # NoError \/ col > last THEN scan
    ELSE ScanCols2(ScanRules2(scan.new_universe, old, n + 2 * vp, n + 2 * hp, rl,
                              views, row, col, row - vp, col - hp, col - hp < n,
                              strict),
                   old, n, vp, hp, rl, views, row, col + 1, last, strict)

\* "for row_index in range(...)", from row on, while no exception has been
\* raised
RECURSIVE ScanRows2(_, _, _, _, _, _, _, _, _, _)
ScanRows2(scan, old, n, vp, hp, rl, views, row, last, strict) ==
    IF scan.err # NoError \/ row > last THEN scan
    ELSE ScanRows2(ScanCols2(scan, old, n, vp, hp, rl, views, row, hp,
                             LastCol(n, vp, hp), strict),
                   old, n, vp, hp, rl, views, row + 1, last, strict)

\* The 2-D branch of Universe.apply
apply2(u, n, rl, strict) ==
    LET vertical_padding == MaxExtent(rl, 1)
        horizontal_padding == MaxExtent(rl, 2)
    IN  ScanRows2([err |-> NoError, new_universe |-> u],
                  Pad2(u, n, vertical_padding, horizontal_padding),
                  n, vertical_padding, horizontal_padding, rl,
                  {View(rl[k]) : k \in 1..Len(rl)},
                  vertical_padding, LastRow(n, vertical_padding), strict)

\* A scan that writes the grid's own cells instead of a buffer: what apply
\* would leave if new_universe were self._universe
ReplacedInPlace(u, scan) ==
    [err |-> scan.err, universe |-> scan.new_universe]

\* self._universe = new_universe is the last statement of apply: the cells are
\* replaced only by a scan that did not raise.  [err, universe]
Replaced(u, scan) ==
    [err |-> scan.err,
     universe |-> IF scan.err = NoError THEN scan.new_universe ELSE u]

\* Universe.apply(rules) on a grid of d dimensions and extent n with cells u:
\* [err, universe], the exception raised and the cells after the call.
apply(u, d, n, rl, strict) ==
    IF \E k \in 1..Len(rl) : Rank(rl[k].window) # d
    THEN [err |-> ErrRuleDims, universe |-> u]
    ELSE IF Len(rl) = 0
    THEN [err |-> ErrMaxEmpty, universe |-> u]
    ELSE Replaced(u, IF d = 1 THEN apply1(u, n, rl, strict)
                     ELSE apply2(u, n, rl, strict))

\* Whether some comparison of the scan is one of arrays that cannot be
\* broadcast together: a slice cut short by the edge of old_universe
CanMisfit(d, n, rl) ==
    /\ Len(rl) > 0
    /\ \A k \in 1..Len(rl) : Rank(rl[k].window) = d
    /\ IF d = 1
       THEN LET padding == MaxExtent(rl, 1)
            IN  \E index \in padding..LastIndex(n, padding) : \E k \in 1..Len(rl) :
                    ~Fits1(n + 2 * padding, index - rl[k].center[1], rl[k].window)
       ELSE LET vp == MaxExtent(rl, 1)
                hp == MaxExtent(rl, 2)
            IN  \E row \in vp..LastRow(n, vp) : \E col \in hp..LastCol(n, vp, hp) :
                \E v \in {View(rl[k]) : k \in 1..Len(rl)} :
                    ~Fits2(n + 2 * vp, n + 2 * hp, row, col, v)

\* The numpy builds to tell apart for apply(rules): one that raises on a
\* comparison of arrays that cannot be broadcast (numpy >= 1.25, strict) and,
\* when the scan makes such a comparison, one that gives False
Builds(d, n, rl) == IF CanMisfit(d, n, rl) THEN BOOLEAN ELSE {TRUE}

\* The run of a Simulator is [err, universe, done]: the exception that ended
\* it, the cells, and the number of calls of apply that returned.
Counted(run, res) ==
    [err |-> res.err, universe |-> res.universe,
     done |-> IF res.err = NoError THEN run.done + 1 ELSE run.done]

\* Simulator.step(num_steps): apply, num_steps times, while no exception has
\* been raised
RECURSIVE step(_, _, _, _, _, _)
step(run, d, n, rl, num_steps, strict) ==
    IF run.err # NoError \/ num_steps <= 0 THEN run
    ELSE step(Counted(run, apply(run.universe, d, n, rl, strict)),
              d, n, rl, num_steps - 1, strict)

----------------------------------------------------------------------------
(* Universe.transform *)

\* One component of an index: a Python int k, or a tuple of ints
IntEl(k) == [isInt |-> TRUE, v |-> <<k>>]
TupleEl(t) == [isInt |-> FALSE, v |-> t]

\* The locations transform is given: an int, a tuple or another iterable
\* (a list) of elements
IntLoc(k) == [kind |-> "int", elems |-> <<IntEl(k)>>]
TupleLoc(es) == [kind |-> "tuple", elems |-> es]
ListLoc(es) == [kind |-> "list", elems |-> es]

\* The tuple of ints (k1, ..., km) as an index
Coordinate(t) == [a \in 1..Len(t) |-> IntEl(t[a])]

\* numpy's reading of an index k on an axis of length n: -n..-1 count from
\* the end, anything else outside 0..n-1 is an IndexError
InAxis(k, n) == k >= -n /\ k < n
AxisIndex(k, n) == IF k < 0 THEN k + n ELSE k

\* self._universe[idx] = state for an index tuple idx with one component per
\* axis of the grid.  Components that are ints select one cell; a tuple among
\* them makes it an index array, broadcast against the others (equal lengths,
\* or length 1), and every broadcast position is a cell selected.  The
\* indices are checked before any cell is written.
SetItem(u, d, n, idx, state) ==
    LET lens == {Len(idx[a].v) : a \in 1..d}
        big == lens \ {1}
        m == IF big = {} THEN 1 ELSE CHOOSE x \in big : TRUE
        At(a, j) == idx[a].v[IF Len(idx[a].v) = 1 THEN 1 ELSE j]
        cells == {[a \in 1..d |-> AxisIndex(At(a, j), n)] : j \in 1..m}
    IN  IF Cardinality(big) > 1 THEN [err |-> ErrIndex, universe |-> u]
        ELSE IF \E j \in 1..m : \E a \in 1..d : ~InAxis(At(a, j), n)
        THEN [err |-> ErrIndex, universe |-> u]
        ELSE [err |-> NoError,
              universe |->
                IF d = 1
                THEN [i \in 0..n-1 |-> IF <<i>> \in cells THEN state ELSE u[i]]
                ELSE [i \in 0..n-1 |-> [j \in 0..n-1 |->
                        IF <<i, j>> \in cells THEN state ELSE u[i][j]]]]

\* The loop of transform over the elements of an iterable that is neither an
\* int nor a tuple: each element is checked and written in turn, and an
\* exception leaves the cells written so far.
RECURSIVE TransformEach(_, _, _, _, _)
TransformEach(u, d, n, es, state) ==
    IF es = <<>> THEN [err |-> NoError, universe |-> u]
    ELSE LET loc == IF Head(es).isInt THEN <<Head(es)>> ELSE Coordinate(Head(es).v)
         IN  IF Len(loc) # d THEN [err |-> ErrLocation, universe |-> u]
             ELSE LET one == SetItem(u, d, n, loc, state)
                  IN  IF one.err # NoError THEN one
                      ELSE TransformEach(one.universe, d, n, Tail(es), state)

\* Universe.transform(location, state): [err, universe]
transform(u, d, n, location, state) ==
    IF location.kind \in {"int", "tuple"}
    THEN IF Len(location.elems) # d
         THEN [err |-> ErrLocation, universe |-> u]
         ELSE SetItem(u, d, n, location.elems, state)
    ELSE TransformEach(u, d, n, location.elems, state)

----------------------------------------------------------------------------
(* Universe.__init__ *)

\* The size argument: None, Size(None) (infinite) or Size(k)
NoSize == [given |-> FALSE, infinite |-> FALSE, size |-> 0]
InfiniteSize == [given |-> TRUE, infinite |-> TRUE, size |-> 0]
Size(k) == [given |-> TRUE, infinite |-> FALSE, size |-> k]

\* The initial argument: None or an array
NoInitial == [given |-> FALSE, array |-> [shape |-> <<>>, data |-> <<>>]]
Initial(a) == [given |-> TRUE, array |-> a]

\* Universe.__check_dimensions
check_dimensions(d) ==
    IF d <= 0 THEN ErrNoDimension
    ELSE IF d > 2 THEN ErrHighDimension
    ELSE NoError

\* initial.shape == size, a Python tuple compared with an int: the two are
\* never equal, whatever the tuple holds.
ShapeEqualsSize(shape, k) == FALSE

\* Universe.__check_initial
check_initial(initial, d) ==
    IF Rank(initial) # d THEN ErrInitialDims
    ELSE IF ~ShapeEqualsSize(initial.shape, initial.shape[1]) THEN ErrNonSquare
    ELSE NoError

\* Universe.__init__(dimensions, size, initial): [err, dimensions, size,
\* universe]; with an error no Universe is made.
Universe(d, sz, initial) ==
    LET none == [err |-> NoError, dimensions |-> d, size |-> 0, universe |-> <<>>]
    IN  IF check_dimensions(d) # NoError
        THEN [none EXCEPT !.err = check_dimensions(d)]
        ELSE IF sz.given = initial.given
        THEN [none EXCEPT !.err = ErrSizeOrInitial]
        ELSE IF sz.given
        THEN IF sz.infinite
             THEN [none EXCEPT !.err = ErrInfinite]
             ELSE [none EXCEPT !.size = sz.size, !.universe = Zeros(d, sz.size)]
        ELSE IF check_initial(initial.array, d) # NoError
             THEN [none EXCEPT !.err = check_initial(initial.array, d)]
             ELSE [none EXCEPT !.size = initial.array.shape[1],
                               !.universe = initial.array.data]

----------------------------------------------------------------------------
(* The shipped automata *)

\* rule_110_sim: the RuleList of Rule 110, built by three add_rule calls
rule_110 ==
    LET r1 == Rule(Array1(<<0, 0, 1>>), <<1>>, 1)
        r2 == Rule(Array1(<<1, 0, 1>>), <<1>>, 1)
        r3 == Rule(Array1(<<1, 1, 1>>), <<1>>, 0)
    IN  add_rule(add_rule(add_rule(<<>>, r1), r2), r3)

\* rule_110_sim: the default size and the cells it sets alive
Size110 == 50
Seed110 == <<10, 12, 13, 14, 16, 17, 20, 22, 24, 25, 27, 30, 32>>

\* itertools.combinations(range(lo, hi), r): the r-element subsets of
\* lo..hi-1 in lexicographic order
RECURSIVE combinations(_, _, _)
combinations(lo, hi, r) ==
    IF r = 0 THEN << {} >>
    ELSE IF hi - lo < r THEN <<>>
    ELSE LET with == combinations(lo + 1, hi, r - 1)
         IN  [k \in 1..Len(with) |-> {lo} \cup with[k]] \o combinations(lo + 1, hi, r)

\* powerset(range(n)): chain.from_iterable(combinations(s, r) for r in range(n + 1)),
\* from r up
RECURSIVE powerset(_, _)
powerset(n, r) ==
    IF r > n THEN <<>> ELSE combinations(0, n, r) \o powerset(n, r + 1)

\* The 3 x 3 window with the cells of subset alive: np.zeros(9) with
\* state[i] = 1 for i in subset, reshaped to (3, 3)
LifeState(subset) ==
    [shape |-> <<3, 3>>,
     data |-> [i \in 0..2 |-> [j \in 0..2 |-> IF (3 * i + j) \in subset THEN 1 ELSE 0]]]

\* np.sum(state) for a 3 x 3 window: the count with the centre not taken off
num_alive_cells(state) ==
    Cardinality({p \in (0..2) \X (0..2) : state.data[p[1]][p[2]] = 1})

\* np.sum(state) - int(is_cell_alive) for a 3 x 3 window
num_alive_neighbours(state) ==
    Cardinality({p \in (0..2) \X (0..2) : state.data[p[1]][p[2]] = 1})
        - (IF state.data[1][1] = 1 THEN 1 ELSE 0)

\* Whether the second loop of get_life_rule_list adds a rule for the window:
\* a live centre with fewer than 2 or more than 3 live neighbours, or a dead
\* centre with exactly 3
HasLifeRule(state) ==
    \/ state.data[1][1] = 1 /\ num_alive_neighbours(state) < 2
    \/ state.data[1][1] = 1 /\ num_alive_neighbours(state) > 3
    \/ state.data[1][1] # 1 /\ num_alive_neighbours(state) = 3

\* The rule added for such a window: a live centre dies, a dead one is born
LifeRule(state) ==
    Rule(state, <<1, 1>>, IF state.data[1][1] = 1 THEN 0 ELSE 1)

\* get_life_rule_list(): the rules, in the order of the windows
get_life_rule_list ==
    LET subsets == powerset(9, 0)
        states == [k \in 1..Len(subsets) |-> LifeState(subsets[k])]
        ruled == SelectSeq(states, HasLifeRule)
    IN  [k \in 1..Len(ruled) |-> LifeRule(ruled[k])]

\* life_sim: the default size and the cells it sets alive (a glider)
LifeSize == 20
Glider == <<<<2, 1>>, <<3, 2>>, <<1, 3>>, <<2, 3>>, <<3, 3>>>>

----------------------------------------------------------------------------
(* The calls as actions.  Each records the call (op, arg), the cells before  *)
(* it (prev) and its outcome (err).                                          *)

\* Universe(d, sz, initial): a new grid takes the place of the old one; a
\* constructor that raises makes none.
New(d, sz, initial) ==
    LET res == Universe(d, sz, initial)
    IN  /\ op' = "new"
        /\ arg' = [dimensions |-> d, size |-> sz, initial |-> initial]
        /\ prev' = universe
        /\ err' = res.err
        /\ IF res.err = NoError
           THEN /\ dimensions' = res.dimensions
                /\ size' = res.size
                /\ universe' = res.universe
           ELSE UNCHANGED <<dimensions, size, universe>>
        /\ origin' = universe'
        /\ steps' = 0
        /\ UNCHANGED rules

\* universe.transform(location, state)
Transform(location, state) ==
    \E res \in {transform(universe, dimensions, size, location, state)} :
        /\ op' = "transform"
        /\ arg' = [location |-> location, state |-> state]
        /\ prev' = universe
        /\ err' = res.err
        /\ universe' = res.universe
        /\ origin' = res.universe
        /\ steps' = 0
        /\ UNCHANGED <<dimensions, size, rules>>

\* rules.add_rule(Rule(window, center, becomes)): a Rule whose construction
\* raises is not added
AddRule(r) ==
    LET rule == Rule(r.window, r.center, r.becomes)
    IN  /\ op' = "add_rule"
        /\ arg' = r
        /\ prev' = universe
        /\ err' = rule.err
        /\ rules' = IF rule.err = NoError THEN add_rule(rules, rule) ELSE rules
        /\ UNCHANGED <<dimensions, size, universe, origin, steps>>

\* universe.apply(rules), on a numpy that raises on a comparison of arrays
\* that cannot be broadcast (strict) or on one that gives False
Apply(strict) ==
    \E res \in {apply(universe, dimensions, size, rules, strict)} :
        /\ op' = "apply"
        /\ arg' = [strict |-> strict]
        /\ prev' = universe
        /\ err' = res.err
        /\ universe' = res.universe
        /\ origin' = res.universe
        /\ steps' = 0
        /\ UNCHANGED <<dimensions, size, rules>>

\* Simulator(universe, rules).step(num_steps)
Step(num_steps, strict) ==
    \E res \in {step([err |-> NoError, universe |-> universe, done |-> 0],
                     dimensions, size, rules, num_steps, strict)} :
        /\ op' = "step"
        /\ arg' = [num_steps |-> num_steps]
        /\ prev' = universe
        /\ err' = res.err
        /\ universe' = res.universe
        /\ steps' = steps + res.done
        /\ UNCHANGED <<dimensions, size, rules, origin>>

\* The state after Universe(dimensions = d, size = Size(n)) with the rule list rl
Sized(d, n, rl) ==
    /\ dimensions = d
    /\ size = n
    /\ universe = Zeros(d, n)
    /\ rules = rl
    /\ origin = Zeros(d, n)
    /\ steps = 0
    /\ op = "new"
    /\ arg = [dimensions |-> d, size |-> Size(n), initial |-> NoInitial]
    /\ prev = Zeros(d, n)
    /\ err = NoError

----------------------------------------------------------------------------
(* Spec: evolution of small grids under rule lists drawn from RulePool *)

RuleArgs(window, center, becomes) ==
    [window |-> window, center |-> center, becomes |-> becomes]

\* The rules the lists of Spec are built from: rank 1 and rank 2, windows of
\* different heights and widths, rules that match the same neighbourhood
\* with different outcomes, and one whose centre does not fit its window's rank.
RulePool ==
    { RuleArgs(Array1(<<0>>), <<0>>, 1),
      RuleArgs(Array1(<<1, 0>>), <<0>>, 0),
      RuleArgs(Array2(<<<<0>>>>), <<0, 0>>, 1),
      RuleArgs(Array2(<<<<0>>>>), <<0, 0>>, 0),
      RuleArgs(Array2(<<<<1, 0>>>>), <<0, 0>>, 0),
      RuleArgs(Array2(<<<<0>>, <<0>>>>), <<1, 0>>, 1),
      RuleArgs(Array1(<<0>>), <<0, 0>>, 1) }

\* The cells of a grid of d dimensions and extent n, as coordinates
Cells(d, n) ==
    IF d = 1 THEN {<<i>> : i \in 0..n-1} ELSE (0..n-1) \X (0..n-1)

Init ==
    \E d \in 1..2 : \E n \in 1..MaxSize : Sized(d, n, <<>>)

\* The grid is edited cell by cell, then the rule list is built, and the
\* grid evolves under it as the list grows.
Next ==
    \/ \E c \in Cells(dimensions, size) : \E state \in Bit :
          Len(rules) = 0 /\ Transform(TupleLoc(Coordinate(c)), state)
    \/ \E r \in RulePool : Len(rules) < MaxRules /\ AddRule(r)
    \/ \E strict \in Builds(dimensions, size, rules) : Apply(strict)

Spec == Init /\ [][Next]_vars

----------------------------------------------------------------------------
(* SpecNew: the constructor, given a size, an initial array, both or neither *)

\* The arrays of rank 1 and 2 with axes of 1..MaxSize cells
Arrays ==
    UNION {{[shape |-> <<n>>, data |-> f] : f \in [0..n-1 -> Bit]} : n \in 1..MaxSize}
    \cup UNION {{[shape |-> <<h, w>>, data |-> f] : f \in [0..h-1 -> [0..w-1 -> Bit]]} :
                    h \in 1..MaxSize, w \in 1..MaxSize}

SizeArgs == {NoSize, InfiniteSize} \cup {Size(k) : k \in 1..MaxSize}

InitialArgs == {NoInitial} \cup {Initial(a) : a \in Arrays}

NextNew ==
    \E d \in 0..3 : \E sz \in SizeArgs : \E initial \in InitialArgs :
        New(d, sz, initial)

SpecNew == Init /\ [][NextNew]_vars

----------------------------------------------------------------------------
(* SpecTransform: transform, given an int, a tuple or a list *)

\* The coordinates tried on an axis of n cells: the two ends, the first index
\* past each end, and -1
Coords(n) == {-n - 1, -1, 0, n - 1, n}

\* The elements of a location: ints, and tuples of one or two ints
Elements(n) ==
    {IntEl(k) : k \in Coords(n)}
    \cup {TupleEl(<<k>>) : k \in Coords(n)}
    \cup {TupleEl(<<k, l>>) : k \in Coords(n), l \in Coords(n)}

\* An int, and the tuples and the lists of up to MaxLocs elements
Locations(n) ==
    {IntLoc(k) : k \in Coords(n)}
    \cup UNION {{TupleLoc(es) : es \in [1..m -> Elements(n)]} : m \in 0..MaxLocs}
    \cup UNION {{ListLoc(es) : es \in [1..m -> Elements(n)]} : m \in 0..MaxLocs}

\* The grid as built or as left by the edit of one cell
CellEdited ==
    \/ op = "new"
    \/ /\ op = "transform"
       /\ arg.location \in {TupleLoc(Coordinate(c)) : c \in Cells(dimensions, size)}

\* The grid is set up by edits of single cells, and transform is then given
\* any location of Locations.
NextTransform ==
    \/ /\ CellEdited
       /\ \E c \in Cells(dimensions, size) : \E state \in Bit :
             Transform(TupleLoc(Coordinate(c)), state)
    \/ /\ CellEdited
       /\ \E location \in Locations(size) : \E state \in Bit :
             Transform(location, state)

SpecTransform == Init /\ [][NextTransform]_vars

----------------------------------------------------------------------------
(* Spec110: rule_110_sim, and Rule 110 on the small 1-D grids *)

\* A list of ints as the location argument of transform
IntList(ks) == ListLoc([k \in 1..Len(ks) |-> IntEl(ks[k])])

Init110 ==
    \E n \in (1..MaxSize110) \cup {Size110} : Sized(1, n, rule_110)

\* rule_110_sim seeds the new grid with Seed110; the small grids are edited
\* cell by cell; the Simulator steps either.
Next110 ==
    \/ op = "new" /\ Transform(IntList(Seed110), 1)
    \/ \E i \in 0..size-1 : \E state \in Bit :
          size <= MaxSize110 /\ Transform(IntLoc(i), state)
    \/ \E num_steps \in 1..MaxNumSteps : \E strict \in Builds(dimensions, size, rules) :
          steps + num_steps <= MaxSteps /\ Step(num_steps, strict)

Spec110 == Init110 /\ [][Next110]_vars

----------------------------------------------------------------------------
(* SpecLife: life_sim, the glider seeded at an offset *)

\* The glider of life_sim moved down by dr rows and right by dc columns
Moved(cells, dr, dc) ==
    [k \in 1..Len(cells) |-> <<cells[k][1] + dr, cells[k][2] + dc>>]

\* A list of coordinates as the location argument of transform
CoordinateList(cells) == ListLoc([k \in 1..Len(cells) |-> TupleEl(cells[k])])

InitLife == Sized(2, LifeSize, get_life_rule_list)

NextLife ==
    \/ \E dr \in 0..MaxShift : \E dc \in 0..MaxShift :
          op = "new" /\ Transform(CoordinateList(Moved(Glider, dr, dc)), 1)
    \/ \E strict \in Builds(dimensions, size, rules) :
          op # "new" /\ steps < MaxSteps /\ Step(1, strict)

SpecLife == InitLife /\ [][NextLife]_vars

----------------------------------------------------------------------------
(* What the specification says of evolve, stated on the grid itself *)

\* The state of cell c, a coordinate, of a grid of d dimensions
CellAt(u, d, c) == IF d = 1 THEN u[c[1]] ELSE u[c[1]][c[2]]

\* The same with every position off the grid dead
DeadOutside(u, d, n, c) ==
    IF \A a \in 1..d : c[a] >= 0 /\ c[a] < n THEN CellAt(u, d, c) ELSE 0

\* Whether the neighbourhood of cell c in u is the window of rule, the
\* window's centre laid on c
NeighbourhoodMatches(u, d, n, rule, c) ==
    IF d = 1
    THEN \A i \in 0..(rule.window.shape[1] - 1) :
            DeadOutside(u, 1, n, <<c[1] - rule.center[1] + i>>) = rule.window.data[i]
    ELSE \A i \in 0..(rule.window.shape[1] - 1) : \A j \in 0..(rule.window.shape[2] - 1) :
            DeadOutside(u, 2, n, <<c[1] - rule.center[1] + i, c[2] - rule.center[2] + j>>)
                = rule.window.data[i][j]

\* The rules of rl, by position, that match the neighbourhood of cell c
Matching(u, d, n, rl, c) ==
    {k \in 1..Len(rl) : NeighbourhoodMatches(u, d, n, rl[k], c)}

\* Every rule of rl has a window of rank d
SameRank(rl, d) == \A k \in 1..Len(rl) : Rank(rl[k].window) = d

\* C1: after an evolve step that completes, every cell whose neighbourhood in
\* the old generation matches two or more rules holds the outcome of the
\* earliest-added of them, in 1-D and in 2-D grids.
C1_FirstMatchWins ==
    (op = "apply" /\ err = NoError) =>
        \A c \in Cells(dimensions, size) :
            Cardinality(Matching(prev, dimensions, size, rules, c)) >= 2 =>
                CellAt(universe, dimensions, c)
                    = rules[SetMin(Matching(prev, dimensions, size, rules, c))].becomes

\* C4: an evolve step with a rule list none of whose rules matches the
\* neighbourhood of any cell, the empty list included, completes and leaves
\* every cell at its previous value.
C4_UnmatchedRetained ==
    ( /\ op = "apply"
      /\ SameRank(rules, dimensions)
      /\ \A c \in Cells(dimensions, size) :
            Matching(prev, dimensions, size, rules, c) = {} )
    => (err = NoError /\ universe = prev)

\* C9: an evolve call that fails, for a rule of the wrong rank or for any
\* other error, leaves the cells as they were before the call; one that
\* completes leaves in every cell its previous state or the outcome of a rule
\* that matches it in the old generation, never a state computed from cells
\* of the new one.
C9_FailedEvolveChangesNothing ==
    /\ (op = "apply" /\ err # NoError) => universe = prev
    /\ (op = "apply" /\ err = NoError) =>
          \A c \in Cells(dimensions, size) :
              \/ CellAt(universe, dimensions, c) = CellAt(prev, dimensions, c)
              \/ \E k \in Matching(prev, dimensions, size, rules, c) :
                    CellAt(universe, dimensions, c) = rules[k].becomes

\* An evolve call that raised IndexError part-way through its scan, after a
\* rule had matched a cell of the grid with an outcome other than the cell's
\* state
C9_Witness ==
    /\ op = "apply"
    /\ err = ErrIndex
    /\ universe = prev
    /\ \E c \in Cells(dimensions, size) :
          \E k \in Matching(prev, dimensions, size, rules, c) :
              rules[k].becomes # CellAt(prev, dimensions, c)

\* C10: an evolve step of a 2-D grid of extent N evaluates the rules at the
\* N x N cells and at no position off the grid, whatever the heights and
\* widths of the windows: it completes, and every cell whose neighbourhood
\* matches a rule holds the outcome of a rule that matches it.
C10_EveryCellEvaluated ==
    (op = "apply" /\ dimensions = 2 /\ Len(rules) > 0 /\ SameRank(rules, 2)) =>
        /\ err = NoError
        /\ \A c \in Cells(2, size) :
              Matching(prev, 2, size, rules, c) # {} =>
                  \E k \in Matching(prev, 2, size, rules, c) :
                      CellAt(universe, 2, c) = rules[k].becomes

----------------------------------------------------------------------------
(* What the specification says of the shipped automata *)

\* The row of n cells with the cells of alive alive
Row(alive, n) == [i \in 0..n-1 |-> IF i \in alive THEN 1 ELSE 0]

\* Rule 110 applied by hand to a row of n cells, every neighbour off the row
\* dead: 001 -> 1, 101 -> 1, 111 -> 0, and any other cell as it was
Hand110(row, n) ==
    [i \in 0..n-1 |->
        LET l == IF i = 0 THEN 0 ELSE row[i - 1]
            r == IF i = n - 1 THEN 0 ELSE row[i + 1]
        IN  IF <<l, row[i], r>> = <<0, 0, 1>> THEN 1
            ELSE IF <<l, row[i], r>> = <<1, 0, 1>> THEN 1
            ELSE IF <<l, row[i], r>> = <<1, 1, 1>> THEN 0
            ELSE row[i]]

\* Hand110, k times
RECURSIVE Hand110Times(_, _, _)
Hand110Times(row, n, k) ==
    IF k = 0 THEN row ELSE Hand110Times(Hand110(row, n), n, k - 1)

\* C2: on every 1-D grid, stepping with the shipped Rule 110 list completes
\* and yields, cell by cell, the row obtained by applying the three rules by
\* hand with every neighbour off the grid dead, the cells at index 0 and
\* extent - 1 included, once for every step taken.
C2_Rule110ByHand ==
    op = "step" =>
        /\ err = NoError
        /\ universe = Hand110Times(prev, size, arg.num_steps)

\* The scenario of rule_110_sim after one step: 50 cells seeded at 10, 12,
\* 13, 14, 16, 17, 20, 22, 24, 25, 27, 30 and 32
C2_Witness ==
    /\ op = "step"
    /\ arg.num_steps = 1
    /\ size = Size110
    /\ prev = Row({10, 12, 13, 14, 16, 17, 20, 22, 24, 25, 27, 30, 32}, Size110)
    /\ universe = Row((9..12) \cup (14..17) \cup (19..27) \cup (29..32), Size110)

\* The live cells of a 2-D grid of extent n
Live(u, n) == {c \in (0..n-1) \X (0..n-1) : u[c[1]][c[2]] = 1}

\* C3: four Simulator steps after the glider is seeded on the 2-D grid of
\* size 20 under the shipped Life rule list, the live cells are those of the
\* seed moved by one row and one column, and no other cell is alive.
C3_GliderMovesDiagonally ==
    (op = "step" /\ steps = 4) =>
        /\ err = NoError
        /\ Live(universe, size) = {<<c[1] + 1, c[2] + 1>> : c \in Live(origin, size)}

\* The scenario of life_sim after four steps
C3_Witness ==
    /\ op = "step"
    /\ steps = 4
    /\ size = LifeSize
    /\ Live(origin, size) = {<<2, 1>>, <<3, 2>>, <<1, 3>>, <<2, 3>>, <<3, 3>>}
    /\ Live(universe, size) = {<<3, 2>>, <<4, 3>>, <<2, 4>>, <<3, 4>>, <<4, 4>>}

----------------------------------------------------------------------------
(* What the specification says of the constructor *)

\* All axes of an array have the same length
Square(a) == \A i \in 1..Rank(a) : a.shape[i] = a.shape[1]

\* C5: constructing a grid from an initial array of rank 1 or 2, the rank
\* being the dimensions asked for, succeeds when all axis lengths are equal
\* and yields the array's cells, and fails with the non-square error only
\* when axis lengths differ.
C5_SquareInitialAccepted ==
    ( /\ op = "new"
      /\ arg.dimensions \in 1..2
      /\ ~arg.size.given
      /\ arg.initial.given
      /\ Rank(arg.initial.array) = arg.dimensions )
    => /\ Square(arg.initial.array) =>
            /\ err = NoError
            /\ size = arg.initial.array.shape[1]
            /\ universe = arg.initial.array.data
       /\ err = ErrNonSquare => ~Square(arg.initial.array)

----------------------------------------------------------------------------
(* What the specification says of transform *)

\* A location that is one coordinate: an int, or a tuple of ints
IsCoordinate(location) ==
    \/ location.kind = "int"
    \/ /\ location.kind = "tuple"
       /\ Len(location.elems) > 0
       /\ \A k \in 1..Len(location.elems) : location.elems[k].isInt

\* A location that is a collection of coordinates: a list, or a tuple of tuples
IsCollection(location) ==
    \/ location.kind = "list"
    \/ /\ location.kind = "tuple"
       /\ Len(location.elems) > 0
       /\ \A k \in 1..Len(location.elems) : ~location.elems[k].isInt

\* The coordinates a location names
Targets(location) ==
    IF IsCoordinate(location)
    THEN {[a \in 1..Len(location.elems) |-> location.elems[a].v[1]]}
    ELSE {location.elems[k].v : k \in 1..Len(location.elems)}

\* Coordinate t names a cell of the grid of extent n
InBounds(t, n) == \A a \in 1..Len(t) : t[a] >= 0 /\ t[a] < n

\* The cells u with those of targets set to state
Painted(u, d, n, targets, state) ==
    IF d = 1
    THEN [i \in 0..n-1 |-> IF <<i>> \in targets THEN state ELSE u[i]]
    ELSE [i \in 0..n-1 |-> [j \in 0..n-1 |->
            IF <<i, j>> \in targets THEN state ELSE u[i][j]]]

\* C6: transform over a list in which some location has an arity other than
\* the grid's dimensions, the others naming cells of the grid, fails with the
\* dimension-mismatch error and leaves every cell unchanged, wherever in the
\* list the bad location stands.
C6_BadArityWritesNothing ==
    ( /\ op = "transform"
      /\ arg.location.kind = "list"
      /\ \E t \in Targets(arg.location) : Len(t) # dimensions
      /\ \A t \in Targets(arg.location) : Len(t) = dimensions => InBounds(t, size) )
    => (err = ErrLocation /\ universe = prev)

\* C7: transform with a coordinate of the grid's arity that lies outside
\* 0..extent-1 on some axis, alone or within a list, fails with the
\* out-of-bounds error and changes no cell.
C7_OutOfBoundsRejected ==
    ( /\ op = "transform"
      /\ IsCoordinate(arg.location) \/ arg.location.kind = "list"
      /\ \A t \in Targets(arg.location) : Len(t) = dimensions
      /\ \E t \in Targets(arg.location) : ~InBounds(t, size) )
    => (err = ErrIndex /\ universe = prev)

\* C8: transform given one coordinate, or a list or a tuple of coordinates of
\* any length, all of the grid's arity and naming cells of the grid, completes,
\* sets exactly the cells named to state and leaves every other cell unchanged.
C8_ExactlyListedCellsSet ==
    ( /\ op = "transform"
      /\ IsCoordinate(arg.location) \/ IsCollection(arg.location)
      /\ \A t \in Targets(arg.location) : Len(t) = dimensions /\ InBounds(t, size) )
    => /\ err = NoError
       /\ universe = Painted(prev, dimensions, size, Targets(arg.location), arg.state)

----------------------------------------------------------------------------
(* Calls on which the code does otherwise than the specification says *)

\* C1: apply on the 2-D grid [[0]] with the rules [[0]] -> 1 and then
\* [[0]] -> 0, both centred on their one cell: the cell ends dead, the
\* outcome of the later rule
C1_Witness ==
    /\ op = "apply"
    /\ err = NoError
    /\ dimensions = 2
    /\ size = 1
    /\ prev = Zeros(2, 1)
    /\ rules = <<Rule(Array2(<<<<0>>>>), <<0, 0>>, 1), Rule(Array2(<<<<0>>>>), <<0, 0>>, 0)>>
    /\ universe[0][0] = 0

\* C4: apply with the empty RuleList raises ValueError from max()
C4_Witness ==
    /\ op = "apply"
    /\ rules = <<>>
    /\ err = ErrMaxEmpty

\* C5: Universe(dimensions = 1, initial = np.array([0])) raises the
\* non-square ValueError
C5_Witness ==
    /\ op = "new"
    /\ arg.dimensions = 1
    /\ arg.size = NoSize
    /\ arg.initial = Initial(Array1(<<0>>))
    /\ err = ErrNonSquare

\* C6: transform([0, (0, 0)], 1) on a 1-D grid of dead cells raises the
\* dimension ValueError with cell 0 already alive
C6_Witness ==
    /\ op = "transform"
    /\ dimensions = 1
    /\ arg.location = ListLoc(<<IntEl(0), TupleEl(<<0, 0>>)>>)
    /\ arg.state = 1
    /\ prev = Zeros(1, size)
    /\ err = ErrLocation
    /\ universe[0] = 1

\* C7: transform(-1, 1) on the 1-D grid of two dead cells returns with cell 1
\* alive
C7_Witness ==
    /\ op = "transform"
    /\ dimensions = 1
    /\ size = 2
    /\ arg.location = IntLoc(-1)
    /\ arg.state = 1
    /\ prev = Zeros(1, 2)
    /\ err = NoError
    /\ universe = Row({1}, 2)

\* C8: transform(((0, 1), (0, 1)), 1) on the 2-D grid of 2 x 2 dead cells
\* returns with the cells (0, 0) and (1, 1) alive and the cell (0, 1) dead
C8_Witness ==
    /\ op = "transform"
    /\ dimensions = 2
    /\ size = 2
    /\ arg.location = TupleLoc(<<TupleEl(<<0, 1>>), TupleEl(<<0, 1>>)>>)
    /\ arg.state = 1
    /\ prev = Zeros(2, 2)
    /\ err = NoError
    /\ Live(universe, 2) = {<<0, 0>>, <<1, 1>>}

\* C10: apply on a 2 x 2 grid whose cell (0, 1) alone is alive, with the one
\* rule [[1, 0]] -> 0 centred on its left cell: the cell, whose right
\* neighbour is off the grid, stays alive
C10_Witness ==
    /\ op = "apply"
    /\ err = NoError
    /\ dimensions = 2
    /\ size = 2
    /\ rules = <<Rule(Array2(<<<<1, 0>>>>), <<0, 0>>, 0)>>
    /\ Live(prev, 2) = {<<0, 1>>}
    /\ Live(universe, 2) = {<<0, 1>>}

====
